---- MODULE Spec2Model ----
(***************************************************************************)
(* PV Fault Detector web front-end.                                        *)
(*                                                                         *)
(* Two independent pieces are modelled:                                    *)
(*   - the service worker (sw.js): install / activate / fetch listeners    *)
(*     over the browser's CacheStorage, specification SpecSW;              *)
(*   - the page controller PVFaultDetector (js/app.js) with its frozen     *)
(*     configuration (js/config.js), specification SpecApp; its parts are  *)
(*     also specified alone: SpecSelect (selection and preview),           *)
(*     SpecSend (selection and submission), SpecResubmit (repeated         *)
(*     submissions), SpecNav (successful analyses and frame navigation),   *)
(*     SpecProgress (progress events of a video request), SpecStats        *)
(*     (displayStats), SpecVideoStats (displayVideoStats) and SpecTheme.   *)
(*                                                                         *)
(* A URL is the sequence of its path segments: "/css/style.css" is         *)
(* <<"css", "style.css">> and "/" is << >>.                                *)
(***************************************************************************)
EXTENDS Integers, Sequences, FiniteSets, TLC

VARIABLES
    \* ---- service worker ----
    oldState,       \* the previously active worker: "none" | "activated" | "redundant"
    newPc,          \* position of the new worker in its lifecycle
    skipWaitingFlag,\* self.skipWaiting() has been called by the new worker
    controller,     \* which worker the pages' fetches are dispatched to
    cacheNames,     \* CacheStorage: store names in creation order (caches.keys())
    cacheEntries,   \* CacheStorage: name -> (url -> response body)
    tasks,          \* fetch-handler continuations in flight
    keysSnapshot,   \* the names caches.keys() resolved with in the activate listener
    preActivate,    \* cacheEntries when the activate listener started (observation)
    preInstall,     \* controller, oldState and cacheEntries when install started (observation)
    attempts,       \* install retries so far
    assetFailed,    \* some asset's fetch or store failed in the latest addAll (observation)
    last,           \* what the most recent fetch-handler step did (observation)
    \* ---- page controller (PVFaultDetector) ----
    selectedFile,     \* this.selectedFile
    isVideo,          \* this.isVideo
    videoResults,     \* this.videoResults
    currentFrameIndex,\* this.currentFrameIndex
    preview,          \* the preview elements of the page
    readers,          \* files whose FileReader has not fired onload yet
    inflight,         \* analysis requests that have been sent and their progress timers
    submits,          \* analysis requests issued so far
    loading,          \* loading overlay: shown, text, subtext
    progress,         \* progress container: hidden, width of the fill (percent)
    results,          \* results section: hidden, images, detections, stats grid
    frameNav,         \* the frame-navigation control created by displayVideoResults
    event,            \* the handler that ran last, its argument and the toast it showed (observation)
    \* ---- theme (loadTheme / toggleTheme) ----
    storedTheme,      \* localStorage item 'theme'
    dataTheme,        \* attribute data-theme of the document element
    themeIcon,        \* text of the .theme-icon element
    themeLog,         \* the themes applied so far and by which function, oldest first (observation)
    \* ---- statistics grid (displayStats) ----
    statsResult,      \* the response displayStats is given
    statsGrid         \* the cards of the statistics grid, in order

swVars == <<oldState, newPc, skipWaitingFlag, controller, cacheNames, cacheEntries,
            tasks, keysSnapshot, preActivate, preInstall, attempts, assetFailed, last>>

appVars == <<selectedFile, isVideo, videoResults, currentFrameIndex, preview, readers,
             inflight, submits, loading, progress, results, frameNav, event>>

auxVars == <<storedTheme, dataTheme, themeIcon, themeLog, statsResult, statsGrid>>

vars == <<swVars, appVars, auxVars>>

\* ------------------------------------------------------------------------
\* Bounds of the model
\* ------------------------------------------------------------------------
MaxTasks == 2
MaxInstallRetries == 1
MaxSubmits == 1
MaxResubmits == 2
MaxNavSubmits == 3
UploadParts == 2
MaxThemeOps == 6
MaxDetections == 3
MaxFrames == 2
MaxFrameDetections == 2

\* ------------------------------------------------------------------------
\* sw.js: constants
\* ------------------------------------------------------------------------
CACHE_NAME == "pv-fault-detector-v1"

\* Tag of the previously deployed worker version and a leftover store of the origin.
OLD_CACHE_NAME == "pv-fault-detector-v0"
LEFTOVER_CACHE_NAME == "pv-fault-detector-beta"

ASSETS_TO_CACHE ==
    << << >>,
       <<"index.html">>,
       <<"css", "style.css">>,
       <<"js", "config.js">>,
       <<"js", "app.js">>,
       <<"manifest.json">> >>

SeqRange(s) == {s[i] : i \in 1..Len(s)}

Min(S) == CHOOSE x \in S : \A y \in S : x <= y

NoResponse == "undefined"

\* Response bodies the network can serve now; "b0" is what was served when the
\* previously deployed version populated its stores.
Bodies == {"b1"}
OldBody == "b0"

IndexUrl == <<"index.html">>

\* Statuses the network answers a shell or asset request with: two success
\* statuses and an error status.
NetStatuses == {200, 203, 404}

\* The requests pages issue (GET): the shell, an image outside the manifest, an
\* API call, a page whose path merely contains the API marker, and the page
\* "/api", which does not contain '/api/'.
Requests ==
    {[url |-> << >>, mode |-> "navigate"],
     [url |-> <<"index.html">>, mode |-> "navigate"],
     [url |-> <<"css", "style.css">>, mode |-> "no-cors"],
     [url |-> <<"js", "config.js">>, mode |-> "no-cors"],
     [url |-> <<"js", "app.js">>, mode |-> "no-cors"],
     [url |-> <<"manifest.json">>, mode |-> "cors"],
     [url |-> <<"icons", "icon.png">>, mode |-> "no-cors"],
     [url |-> <<"api", "analyze">>, mode |-> "cors"],
     [url |-> <<"docs", "api", "index.html">>, mode |-> "navigate"],
     [url |-> <<"api">>, mode |-> "navigate"]}

\* ------------------------------------------------------------------------
\* CacheStorage (the browser API the listeners call)
\* ------------------------------------------------------------------------
\* caches.open(name): the store is created, empty, when it does not exist.
CachesOpenNames(names, name) ==
    IF name \in SeqRange(names) THEN names ELSE Append(names, name)

CachesOpenEntries(entries, name) ==
    IF name \in DOMAIN entries THEN entries
    ELSE [n \in DOMAIN entries \cup {name} |->
            IF n = name THEN << >> ELSE entries[n]]

\* cache.put(request, response) on one store's entries.
CachePutEntry(store, url, body) ==
    [u \in DOMAIN store \cup {url} |-> IF u = url THEN body ELSE store[u]]

\* Mutant: only the store of the current version is searched.
CachesMatch_CurrentStoreOnly(names, entries, url) ==
    IF CACHE_NAME \in DOMAIN entries /\ url \in DOMAIN entries[CACHE_NAME]
    THEN entries[CACHE_NAME][url] ELSE NoResponse

\* caches.match(request): the first store, in creation order, holding the URL.
CachesMatch(names, entries, url) ==
    LET hits == {i \in 1..Len(names) : url \in DOMAIN entries[names[i]]}
    IN  IF hits = {} THEN NoResponse ELSE entries[names[Min(hits)]][url]

\* caches.delete(name) for every name of a set.
CachesDeleteNames(names, gone) == SelectSeq(names, LAMBDA n : n \notin gone)

CachesDeleteEntries(entries, gone) == [n \in DOMAIN entries \ gone |-> entries[n]]

\* ------------------------------------------------------------------------
\* sw.js: helpers of the listeners
\* ------------------------------------------------------------------------
Workers == {"old", "new"}

\* The old worker is the previous deployment of the same script under its own tag.
WorkerCacheName(w) == IF w = "new" THEN CACHE_NAME ELSE OLD_CACHE_NAME

\* Mutant: the marker is looked for at the start of the path only.
IsApiRequest_PathPrefix(url) == Len(url) > 1 /\ url[1] = "api"

\* event.request.url.includes('/api/'): some segment "api" followed by a slash.
IsApiRequest(url) == \E i \in 1..(Len(url) - 1) : url[i] = "api"

\* Mutant: the filter is dropped, every store is deleted.
StaleNames_All(names) == SeqRange(names)

\* Mutant: the filter keeps the store of the previous version.
StaleNames_KeepPrevious(names) ==
    {n \in SeqRange(names) : n # CACHE_NAME /\ n # OLD_CACHE_NAME}

\* .filter((name) => name !== CACHE_NAME) over caches.keys()
StaleNames(names) == {n \in SeqRange(names) : n # CACHE_NAME}

\* fetchResponse.status !== 200 : not cached
IsCacheable(status) == status = 200

\* Mutant: the fallback is tied to the wrong request mode.
IsNavigation_SameOrigin(req) == req.mode = "same-origin"

\* Mutant: the fallback is given whatever the request mode.
IsNavigation_AnyMode(req) == TRUE

\* event.request.mode === 'navigate'
IsNavigation(req) == req.mode = "navigate"

\* Mutant: failures are swallowed unless every asset failed.
AddAllRejects_OnlyWhenAllFail(failed) == failed = SeqRange(ASSETS_TO_CACHE)

\* cache.addAll(ASSETS_TO_CACHE): every asset is fetched; one failure rejects the
\* whole call and stores nothing, otherwise all of them are stored.
AddAllRejects(failed) == failed # {}

\* Mutant: the last asset of the manifest is not stored.
AddAllEntries_DropsLast(store, body) ==
    [u \in DOMAIN store \cup (SeqRange(ASSETS_TO_CACHE) \ {ASSETS_TO_CACHE[Len(ASSETS_TO_CACHE)]}) |->
        IF u \in SeqRange(ASSETS_TO_CACHE) THEN body ELSE store[u]]

AddAllEntries(store, body) ==
    [u \in DOMAIN store \cup SeqRange(ASSETS_TO_CACHE) |->
        IF u \in SeqRange(ASSETS_TO_CACHE) THEN body ELSE store[u]]

WorkerActivated(w) ==
    IF w = "new" THEN newPc = "activated" ELSE oldState = "activated"

\* Fetch events go to the worker that controls the pages, once it is activated.
Serving(w) == controller = w /\ WorkerActivated(w)

InstallDone == newPc \in {"installed", "activating", "keys", "deleted", "activated"}

NoLast ==
    [kind |-> "none", worker |-> "none", req |-> [url |-> << >>, mode |-> "none"],
     answer |-> "none", body |-> NoResponse, status |-> 0, net |-> FALSE,
     installed |-> FALSE]

\* ------------------------------------------------------------------------
\* sw.js: install listener
\* ------------------------------------------------------------------------
\* caches.open(CACHE_NAME)
InstallOpen ==
    /\ newPc = "parsed"
    /\ cacheNames' = CachesOpenNames(cacheNames, CACHE_NAME)
    /\ cacheEntries' = CachesOpenEntries(cacheEntries, CACHE_NAME)
    /\ preInstall' = [controller |-> controller, oldState |-> oldState,
                      entries |-> cacheEntries]
    /\ newPc' = "opened"
    /\ UNCHANGED <<oldState, skipWaitingFlag, controller, tasks, keysSnapshot,
                   preActivate, attempts, last>>
    /\ assetFailed' = FALSE
    /\ UNCHANGED <<appVars, auxVars>>

\* cache.addAll(ASSETS_TO_CACHE): `failed` are the assets whose fetch or store fails.
InstallAddAll ==
    /\ newPc = "opened"
    /\ \E failed \in SUBSET SeqRange(ASSETS_TO_CACHE), body \in Bodies :
        /\ assetFailed' = (failed # {})
        /\ IF AddAllRejects(failed)
           THEN \* the promise chain rejects: waitUntil fails the install
                /\ newPc' = "redundant"
                /\ UNCHANGED cacheEntries
           ELSE /\ newPc' = "added"
                /\ cacheEntries' =
                      [cacheEntries EXCEPT ![CACHE_NAME] = AddAllEntries(@, body)]
    /\ UNCHANGED <<oldState, skipWaitingFlag, controller, cacheNames, tasks,
                   keysSnapshot, preActivate, preInstall, attempts, last>>
    /\ UNCHANGED <<appVars, auxVars>>

\* .then(() => self.skipWaiting()); the install step is then complete.
InstallSkipWaiting ==
    /\ newPc = "added"
    /\ skipWaitingFlag' = TRUE
    /\ newPc' = "installed"
    /\ UNCHANGED <<oldState, controller, cacheNames, cacheEntries, tasks,
                   keysSnapshot, preActivate, preInstall, attempts, assetFailed, last>>
    /\ UNCHANGED <<appVars, auxVars>>

\* A failed install leaves the registration as it was; the browser installs the
\* script again on a later registration or update check.
InstallRetry ==
    /\ newPc = "redundant"
    /\ attempts < MaxInstallRetries
    /\ attempts' = attempts + 1
    /\ newPc' = "parsed"
    /\ skipWaitingFlag' = FALSE
    /\ assetFailed' = FALSE
    /\ UNCHANGED <<oldState, controller, cacheNames, cacheEntries, tasks,
                   keysSnapshot, preActivate, preInstall, last>>
    /\ UNCHANGED <<appVars, auxVars>>

\* ------------------------------------------------------------------------
\* sw.js: activate listener
\* ------------------------------------------------------------------------
\* The browser activates the waiting worker: at once when skipWaiting was called
\* (or no worker is active). The old worker finishes the requests it is answering
\* and is terminated (its unawaited cache writes with it); the pages it controlled
\* are handed to the new worker.
Activate ==
    /\ newPc = "installed"
    /\ oldState # "activated" \/ skipWaitingFlag
    /\ \A t \in tasks : ~(t.worker = "old" /\ t.pc = "net")
    /\ oldState' = IF oldState = "activated" THEN "redundant" ELSE oldState
    /\ tasks' = {t \in tasks : t.worker # "old"}
    /\ controller' = IF controller = "old" THEN "new" ELSE controller
    /\ newPc' = "activating"
    /\ UNCHANGED <<skipWaitingFlag, cacheNames, cacheEntries, keysSnapshot,
                   preActivate, preInstall, attempts, assetFailed, last>>
    /\ UNCHANGED <<appVars, auxVars>>

\* caches.keys()
ActivateKeys ==
    /\ newPc = "activating"
    /\ keysSnapshot' = cacheNames
    /\ preActivate' = cacheEntries
    /\ newPc' = "keys"
    /\ UNCHANGED <<oldState, skipWaitingFlag, controller, cacheNames, cacheEntries,
                   tasks, preInstall, attempts, assetFailed, last>>
    /\ UNCHANGED <<appVars, auxVars>>

\* Promise.all(cacheNames.filter(...).map((name) => caches.delete(name)))
ActivateDelete ==
    /\ newPc = "keys"
    /\ cacheNames' = CachesDeleteNames(cacheNames, StaleNames(keysSnapshot))
    /\ cacheEntries' = CachesDeleteEntries(cacheEntries, StaleNames(keysSnapshot))
    /\ newPc' = "deleted"
    /\ UNCHANGED <<oldState, skipWaitingFlag, controller, tasks, keysSnapshot,
                   preActivate, preInstall, attempts, assetFailed, last>>
    /\ UNCHANGED <<appVars, auxVars>>

\* .then(() => self.clients.claim()); the activation step is then complete.
ActivateClaim ==
    /\ newPc = "deleted"
    /\ controller' = "new"
    /\ newPc' = "activated"
    /\ UNCHANGED <<oldState, skipWaitingFlag, cacheNames, cacheEntries, tasks,
                   keysSnapshot, preActivate, preInstall, attempts, assetFailed, last>>
    /\ UNCHANGED <<appVars, auxVars>>

\* ------------------------------------------------------------------------
\* sw.js: fetch listener
\* ------------------------------------------------------------------------
Observed(kind, w, req, answer, body, status, net) ==
    [kind |-> kind, worker |-> w, req |-> req, answer |-> answer, body |-> body,
     status |-> status, net |-> net, installed |-> InstallDone]

\* The listener is entered. An API request returns without respondWith, so the
\* browser performs its own network fetch ("default"). Otherwise caches.match
\* answers a hit, and a miss starts fetch(event.request).
FetchEvent(w, req) ==
    /\ Serving(w)
    /\ IF IsApiRequest(req.url)
       THEN /\ last' = Observed("event", w, req, "default", NoResponse, 0, TRUE)
            /\ UNCHANGED tasks
       ELSE LET response == CachesMatch(cacheNames, cacheEntries, req.url)
            IN  IF response # NoResponse
                THEN /\ last' = Observed("event", w, req, "cache", response, 200, FALSE)
                     /\ UNCHANGED tasks
                ELSE /\ Cardinality(tasks) < MaxTasks
                     /\ tasks' = tasks \cup
                            {[worker |-> w, req |-> req, pc |-> "net", body |-> NoResponse]}
                     /\ last' = Observed("event", w, req, "pending", NoResponse, 0, TRUE)
    /\ UNCHANGED <<oldState, newPc, skipWaitingFlag, controller, cacheNames,
                   cacheEntries, keysSnapshot, preActivate, preInstall, attempts, assetFailed>>
    /\ UNCHANGED <<appVars, auxVars>>

\* fetch(event.request) resolves with a response of some status. A response that
\* is not a 200 is returned as it is; a 200 is cloned, its cache write is started
\* (not awaited) and the response is returned.
NetReply(t, status, body) ==
    /\ t \in tasks /\ t.pc = "net"
    /\ tasks' = IF IsCacheable(status)
                THEN (tasks \ {t}) \cup {[t EXCEPT !.pc = "put", !.body = body]}
                ELSE tasks \ {t}
    /\ last' = Observed("reply", t.worker, t.req, "network", body, status, FALSE)
    /\ UNCHANGED <<oldState, newPc, skipWaitingFlag, controller, cacheNames,
                   cacheEntries, keysSnapshot, preActivate, preInstall, attempts, assetFailed>>
    /\ UNCHANGED <<appVars, auxVars>>

\* fetch(event.request) rejects (offline): the .catch answers a navigation with
\* caches.match('/index.html') and anything else with undefined, which the
\* caller sees as a network error.
NetFail(t) ==
    /\ t \in tasks /\ t.pc = "net"
    /\ tasks' = tasks \ {t}
    /\ LET shell == CachesMatch(cacheNames, cacheEntries, IndexUrl)
       IN  last' = IF IsNavigation(t.req) /\ shell # NoResponse
                   THEN Observed("fail", t.worker, t.req, "fallback", shell, 200, FALSE)
                   ELSE Observed("fail", t.worker, t.req, "error", NoResponse, 0, FALSE)
    /\ UNCHANGED <<oldState, newPc, skipWaitingFlag, controller, cacheNames,
                   cacheEntries, keysSnapshot, preActivate, preInstall, attempts, assetFailed>>
    /\ UNCHANGED <<appVars, auxVars>>

\* caches.open(CACHE_NAME).then((cache) => { cache.put(event.request, responseToCache); })
CachePut(t) ==
    /\ t \in tasks /\ t.pc = "put"
    /\ tasks' = tasks \ {t}
    /\ LET name == WorkerCacheName(t.worker)
           opened == CachesOpenEntries(cacheEntries, name)
       IN  /\ cacheNames' = CachesOpenNames(cacheNames, name)
           /\ cacheEntries' =
                 [opened EXCEPT ![name] = CachePutEntry(@, t.req.url, t.body)]
    /\ last' = Observed("put", t.worker, t.req, "none", t.body, 200, FALSE)
    /\ UNCHANGED <<oldState, newPc, skipWaitingFlag, controller, keysSnapshot,
                   preActivate, preInstall, attempts, assetFailed>>
    /\ UNCHANGED <<appVars, auxVars>>

\* ========================================================================
\* js/config.js
\* ========================================================================
API_BASE_URL == "https://YOUR_API_SERVER_URL"

ENDPOINTS ==
    [ANALYZE |-> "/api/analyze", ANALYZE_VIDEO |-> "/api/analyze-video",
     HEALTH |-> "/api/health", DETECT |-> "/api/detect", SEGMENT |-> "/api/segment"]

MAX_FILE_SIZE == 10 * 1024 * 1024
MAX_VIDEO_SIZE == 50 * 1024 * 1024

SUPPORTED_TYPES == {"image/jpeg", "image/png", "image/webp"}
SUPPORTED_VIDEO_TYPES == {"video/mp4", "video/webm", "video/quicktime", "video/x-msvideo"}

\* ========================================================================
\* js/app.js: class PVFaultDetector
\* ========================================================================
NoFile == [type |-> "none", size |-> 0]
NoResult == [kind |-> "none"]

\* The files the user can pick: at and just over each ceiling (the video at its
\* ceiling is over the image ceiling), and two types outside both allow-lists
\* (one of them image/*, which the camera input accepts).
InputFiles ==
    {[type |-> "image/jpeg", size |-> MAX_FILE_SIZE],
     [type |-> "image/webp", size |-> MAX_FILE_SIZE + 1],
     [type |-> "video/mp4", size |-> MAX_VIDEO_SIZE],
     [type |-> "video/quicktime", size |-> MAX_VIDEO_SIZE + 1],
     [type |-> "application/pdf", size |-> MAX_FILE_SIZE],
     [type |-> "image/gif", size |-> MAX_FILE_SIZE]}

\* e.dataTransfer.files of a drop: no file, one file, or several.
DropLists ==
    {<< >>,
     <<[type |-> "video/mp4", size |-> MAX_VIDEO_SIZE]>>,
     <<[type |-> "application/pdf", size |-> MAX_FILE_SIZE],
       [type |-> "image/jpeg", size |-> MAX_FILE_SIZE]>>}

\* e.target.files of the file input: no file or the one picked.
PickerLists == {<< >>} \cup {<<f>> : f \in InputFiles}

\* e.target.files of the capture input (accept = 'image/*'): no file or an image.
CameraLists ==
    {<< >>} \cup {<<f>> : f \in {g \in InputFiles : g.type \in {"image/jpeg", "image/gif"}}}

\* showToast(message, type): the message text with its interpolated value.
Toast(text, arg, type) == [text |-> text, arg |-> arg, type |-> type]
NoToast == Toast("", 0, "none")

Event(name, arg, toast) == [name |-> name, arg |-> arg, toast |-> toast]

\* What a result element displays: a frame of a response (frame 0 of an image response).
Shown(id, frame) == [of |-> id, frame |-> frame]
NoShown == Shown("none", 0)

\* Response bodies of the analysis endpoints. A body is identified by `id`; a video
\* response carries `frames` frames. Unparsable is a body that is not JSON.
ImagePayloads == {[kind |-> "image", id |-> "imgA", frames |-> 0]}
VideoPayloads == {[kind |-> "video", id |-> "vidA", frames |-> 2]}
LongVideoPayloads == {[kind |-> "video", id |-> "vidB", frames |-> 3]}
Unparsable == [kind |-> "unparsable", id |-> "none", frames |-> 0]

\* HTTP statuses the analysis endpoints answer with.
Statuses == {200, 201, 500}

\* The page as index.html delivers it: nothing selected, preview and results
\* hidden, loading overlay hidden.
InitialPreview ==
    [imageSrc |-> NoFile, imageHidden |-> FALSE, videoSrc |-> NoFile,
     videoHidden |-> TRUE, optionsHidden |-> TRUE, sectionHidden |-> TRUE,
     title |-> "Selected Image", btnText |-> "Analyze Panel"]

\* constructor()
InitAppVars ==
    /\ selectedFile = NoFile
    /\ isVideo = FALSE
    /\ videoResults = NoResult
    /\ currentFrameIndex = 0
    /\ preview = InitialPreview
    /\ readers = {}
    /\ inflight = {}
    /\ submits = 0
    /\ loading = [shown |-> FALSE, text |-> "", subtext |-> ""]
    /\ progress = [hidden |-> TRUE, width |-> 0]
    /\ results = [hidden |-> TRUE, images |-> NoShown, detections |-> NoShown,
                  stats |-> "none"]
    /\ frameNav = [state |-> "absent", counter |-> <<0, 0>>, bindings |-> 0]
    /\ event = Event("constructor", NoFile, NoToast)

\* ------------------------------------------------------------------------
\* File handling
\* ------------------------------------------------------------------------
\* CONFIG.SUPPORTED_VIDEO_TYPES.includes(file.type)
IsVideoType(file) == file.type \in SUPPORTED_VIDEO_TYPES

\* Mutant: the type check is skipped.
TypeRejected_Skipped(file, video) == FALSE

\* !CONFIG.SUPPORTED_TYPES.includes(file.type) && !isVideo
TypeRejected(file, video) == file.type \notin SUPPORTED_TYPES /\ ~video

\* Mutant: one ceiling for both classes.
MaxSizeFor_ImageCeilingOnly(video) == MAX_FILE_SIZE

\* const maxSize = isVideo ? CONFIG.MAX_VIDEO_SIZE : CONFIG.MAX_FILE_SIZE
MaxSizeFor(video) == IF video THEN MAX_VIDEO_SIZE ELSE MAX_FILE_SIZE

\* Mutant: a file of exactly the ceiling is rejected.
SizeRejected_AtCeiling(file, video) == file.size >= MaxSizeFor(video)

\* file.size > maxSize
SizeRejected(file, video) == file.size > MaxSizeFor(video)

\* Math.round(maxSize / 1024 / 1024)
SizeMB(maxSize) == (2 * maxSize + 1024 * 1024) \div (2 * 1024 * 1024)

\* processFile(file). The tag this.isVideo is assigned before the file is validated.
ProcessFile(name, file) ==
    LET video == IsVideoType(file)
    IN  /\ isVideo' = video
        /\ IF TypeRejected(file, video)
           THEN /\ event' = Event(name, file,
                      Toast("Please select a valid image or video file", 0, "error"))
                /\ UNCHANGED <<selectedFile, readers>>
           ELSE IF SizeRejected(file, video)
           THEN /\ event' = Event(name, file,
                      Toast("File size must be less than {}MB", SizeMB(MaxSizeFor(video)), "error"))
                /\ UNCHANGED <<selectedFile, readers>>
           ELSE \* this.selectedFile = file; this.showPreview(file) starts a FileReader
                /\ selectedFile' = file
                /\ readers' = readers \cup {file}
                /\ event' = Event(name, file, NoToast)
        /\ UNCHANGED <<videoResults, currentFrameIndex, preview, inflight, submits,
                       loading, progress, results, frameNav>>

\* A handler that is given an empty file list does nothing.
NoFileChosen(name) ==
    /\ event' = Event(name, NoFile, NoToast)
    /\ UNCHANGED <<selectedFile, isVideo, videoResults, currentFrameIndex, preview,
                   readers, inflight, submits, loading, progress, results, frameNav>>

\* handleDrop(e): files[0] of the dropped files
HandleDrop(files) ==
    /\ IF Len(files) > 0 THEN ProcessFile("processFile", files[1])
       ELSE NoFileChosen("noFile")
    /\ UNCHANGED <<swVars, auxVars>>

\* handleFileSelect(e): files[0] of the file input
HandleFileSelect(files) ==
    /\ IF Len(files) > 0 THEN ProcessFile("processFile", files[1])
       ELSE NoFileChosen("noFile")
    /\ UNCHANGED <<swVars, auxVars>>

\* openCamera(): the onchange of the capture input
CameraChange(files) ==
    /\ IF Len(files) > 0 THEN ProcessFile("processFile", files[1])
       ELSE NoFileChosen("noFile")
    /\ UNCHANGED <<swVars, auxVars>>

\* showPreview(file): reader.onload fires with the data URL of `file`; the
\* element it fills is chosen by this.isVideo as it is at that moment.
ReaderLoad(file) ==
    /\ file \in readers
    /\ readers' = readers \ {file}
    /\ preview' =
          IF isVideo
          THEN [preview EXCEPT !.imageHidden = TRUE, !.videoHidden = FALSE,
                               !.videoSrc = file, !.optionsHidden = FALSE,
                               !.title = "Selected Video", !.btnText = "Analyze Video",
                               !.sectionHidden = FALSE]
          ELSE [preview EXCEPT !.imageHidden = FALSE, !.videoHidden = TRUE,
                               !.imageSrc = file, !.optionsHidden = TRUE,
                               !.title = "Selected Image", !.btnText = "Analyze Panel",
                               !.sectionHidden = FALSE]
    /\ results' = [results EXCEPT !.hidden = TRUE]
    /\ event' = Event("reader.onload", NoFile, NoToast)
    /\ UNCHANGED <<selectedFile, isVideo, videoResults, currentFrameIndex, inflight,
                   submits, loading, progress, frameNav>>
    /\ UNCHANGED <<swVars, auxVars>>

\* The body of clearPreview().
ClearPreviewEffect ==
    /\ selectedFile' = NoFile
    /\ isVideo' = FALSE
    /\ videoResults' = NoResult
    /\ currentFrameIndex' = 0
    /\ preview' = [preview EXCEPT !.imageSrc = NoFile, !.imageHidden = FALSE,
                                  !.videoSrc = NoFile, !.videoHidden = TRUE,
                                  !.optionsHidden = TRUE, !.sectionHidden = TRUE]

\* clearPreview() from the clear button
ClearPreview ==
    /\ ClearPreviewEffect
    /\ event' = Event("clearPreview", NoFile, NoToast)
    /\ UNCHANGED <<readers, inflight, submits, loading, progress, results, frameNav>>
    /\ UNCHANGED <<swVars, auxVars>>

\* startNewAnalysis()
StartNewAnalysis ==
    /\ ClearPreviewEffect
    /\ results' = [results EXCEPT !.hidden = TRUE]
    /\ event' = Event("startNewAnalysis", NoFile, NoToast)
    /\ UNCHANGED <<readers, inflight, submits, loading, progress, frameNav>>
    /\ UNCHANGED <<swVars, auxVars>>

\* ------------------------------------------------------------------------
\* Results display
\* ------------------------------------------------------------------------
\* showLoading(show, text = 'Analyzing...')
ShowLoading(show, text) == [shown |-> show, text |-> text, subtext |-> ""]

\* displayResults(result): the frame navigation is hidden when it exists; images,
\* detections and statistics of the response are rendered.
DisplayResultsSection(result) ==
    [hidden |-> FALSE, images |-> Shown(result.id, 0),
     detections |-> Shown(result.id, 0), stats |-> result.id]

DisplayResultsNav(nav) ==
    IF nav.state = "absent" THEN nav ELSE [nav EXCEPT !.state = "hidden"]

\* showFrameResult(index) against a held result: out-of-range indexes and a
\* missing result return without effect.
FrameInRange(held, index) ==
    held # NoResult /\ index >= 0 /\ index < held.frames

\* displayVideoResults(result), called with this.videoResults = result: the
\* navigation is created (and its two handlers bound) on first use and shown
\* again afterwards; frame 0 and the statistics of the whole response are rendered.
DisplayVideoResultsSection(result, section) ==
    [hidden |-> FALSE,
     images |-> IF FrameInRange(result, 0) THEN Shown(result.id, 0) ELSE section.images,
     detections |-> IF FrameInRange(result, 0) THEN Shown(result.id, 0)
                    ELSE section.detections,
     stats |-> result.id]

\* Mutant: the handlers are bound again every time a video result is displayed.
DisplayVideoResultsNav_RebindsEachTime(result, nav) ==
    [state |-> "shown", counter |-> <<1, result.frames>>, bindings |-> nav.bindings + 1]

DisplayVideoResultsNav(result, nav) ==
    [state |-> "shown",
     counter |-> <<1, result.frames>>,
     bindings |-> IF nav.state = "absent" THEN nav.bindings + 1 ELSE nav.bindings]

\* showFrameResult(index) from the navigation buttons
ShowFrameResult(name, index) ==
    /\ IF FrameInRange(videoResults, index)
       THEN /\ currentFrameIndex' = index
            /\ results' = [results EXCEPT !.images = Shown(videoResults.id, index),
                                          !.detections = Shown(videoResults.id, index)]
            /\ frameNav' = [frameNav EXCEPT !.counter = <<index + 1, videoResults.frames>>]
       ELSE UNCHANGED <<currentFrameIndex, results, frameNav>>
    /\ event' = Event(name, NoFile, NoToast)
    /\ UNCHANGED <<selectedFile, isVideo, videoResults, preview, readers, inflight,
                   submits, loading, progress>>

\* The navigation buttons can be clicked while the control is displayed.
NavClickable == frameNav.state = "shown" /\ ~results.hidden

\* showPrevFrame()
ShowPrevFrame ==
    /\ NavClickable
    /\ IF currentFrameIndex > 0
       THEN ShowFrameResult("showPrevFrame", currentFrameIndex - 1)
       ELSE /\ event' = Event("showPrevFrame", NoFile, NoToast)
            /\ UNCHANGED <<selectedFile, isVideo, videoResults, currentFrameIndex, preview,
                           readers, inflight, submits, loading, progress, results, frameNav>>
    /\ UNCHANGED <<swVars, auxVars>>

\* Mutant: the last frame cannot be stepped to.
HasNextFrame_StopsEarly(held, index) == held # NoResult /\ index < held.frames - 2

\* this.videoResults && this.currentFrameIndex < this.videoResults.frames.length - 1
HasNextFrame(held, index) == held # NoResult /\ index < held.frames - 1

\* showNextFrame()
ShowNextFrame ==
    /\ NavClickable
    /\ IF HasNextFrame(videoResults, currentFrameIndex)
       THEN ShowFrameResult("showNextFrame", currentFrameIndex + 1)
       ELSE /\ event' = Event("showNextFrame", NoFile, NoToast)
            /\ UNCHANGED <<selectedFile, isVideo, videoResults, currentFrameIndex, preview,
                           readers, inflight, submits, loading, progress, results, frameNav>>
    /\ UNCHANGED <<swVars, auxVars>>

\* ------------------------------------------------------------------------
\* Analysis requests
\* ------------------------------------------------------------------------
\* A request that has been sent. pc: "fetch" (image: awaiting the response),
\* "json" (image: awaiting response.json()), "sent" (video: awaiting onload or
\* onerror), "hung" (video: the promise can no longer settle), "done" (settled;
\* kept while its interval timer is still set). `timer` is the setInterval of the
\* video path, `ticks` its local variable `progress`, `uploaded` the parts of the
\* body sent so far, `status` the status of the response once it has arrived.
Request(id, kind, file) ==
    [id |-> id, kind |-> kind,
     endpoint |-> IF kind = "video" THEN ENDPOINTS.ANALYZE_VIDEO ELSE ENDPOINTS.ANALYZE,
     file |-> file,
     pc |-> IF kind = "video" THEN "sent" ELSE "fetch",
     timer |-> kind = "video",
     ticks |-> 30,
     uploaded |-> 0,
     status |-> 0]

Awaiting(r) == r.pc \in {"fetch", "json", "sent"}

\* analyzeImage(), with at most `limit` submissions in a run of the model:
\* without a selected file a toast is shown and nothing is sent;
\* otherwise this.isVideo routes to analyzeVideo() or analyzeImageFile(), each of
\* which shows the loading overlay and sends this.selectedFile.
Submit(limit) ==
    /\ IF selectedFile = NoFile
       THEN /\ event' = Event("analyzeImage", NoFile,
                              Toast("Please select an image or video first", 0, "error"))
            /\ UNCHANGED <<inflight, submits, loading, progress>>
       ELSE /\ submits < limit
            /\ submits' = submits + 1
            /\ event' = Event("analyzeImage", selectedFile, NoToast)
            /\ IF isVideo
               THEN /\ loading' = ShowLoading(TRUE, "Processing video...")
                    /\ progress' = [hidden |-> FALSE, width |-> 0]
                    /\ inflight' = inflight \cup {Request(submits + 1, "video", selectedFile)}
               ELSE /\ loading' = ShowLoading(TRUE, "Analyzing image...")
                    /\ inflight' = inflight \cup {Request(submits + 1, "image", selectedFile)}
                    /\ UNCHANGED progress
    /\ UNCHANGED <<selectedFile, isVideo, videoResults, currentFrameIndex, preview,
                   readers, results, frameNav>>
    /\ UNCHANGED <<swVars, auxVars>>

\* The analyze button is clicked (bindEvents: analyzeBtn 'click').
AnalyzeImage == Submit(MaxSubmits)

\* analyzeImageFile(): catch block followed by finally
ImageFailure(r, text, arg) ==
    /\ event' = Event("analyzeImageFile", NoFile, Toast(text, arg, "error"))
    /\ loading' = ShowLoading(FALSE, "Analyzing...")
    /\ inflight' = inflight \ {r}
    /\ UNCHANGED <<selectedFile, isVideo, videoResults, currentFrameIndex, preview,
                   readers, submits, progress, results, frameNav>>

\* analyzeImageFile(): fetch rejects (transport failure)
ImageFetchFails(r) ==
    /\ r \in inflight /\ r.pc = "fetch"
    /\ ImageFailure(r, "Analysis failed: Failed to fetch", 0)
    /\ UNCHANGED <<swVars, auxVars>>

\* Mutant: the upper end of the success range is not checked.
ResponseOk_NoUpperEnd(status) == status >= 200

\* response.ok
ResponseOk(status) == status >= 200 /\ status <= 299

\* analyzeImageFile(): fetch resolves with a response
ImageResponse(r, status) ==
    /\ r \in inflight /\ r.pc = "fetch"
    /\ IF ~ResponseOk(status)
       THEN ImageFailure(r, "Analysis failed: Server error: {}", status)
       ELSE /\ inflight' = (inflight \ {r}) \cup {[r EXCEPT !.pc = "json", !.status = status]}
            /\ event' = Event("analyzeImageFile", NoFile, NoToast)
            /\ UNCHANGED <<selectedFile, isVideo, videoResults, currentFrameIndex, preview,
                           readers, submits, loading, progress, results, frameNav>>
    /\ UNCHANGED <<swVars, auxVars>>

\* analyzeImageFile(): response.json() settles; a parsed result is displayed
ImageBody(r, body) ==
    /\ r \in inflight /\ r.pc = "json"
    /\ IF body = Unparsable
       THEN ImageFailure(r, "Analysis failed: Unexpected token", 0)
       ELSE /\ results' = DisplayResultsSection(body)
            /\ frameNav' = DisplayResultsNav(frameNav)
            /\ event' = Event("analyzeImageFile", NoFile,
                              Toast("Analysis complete!", 0, "success"))
            /\ loading' = ShowLoading(FALSE, "Analyzing...")
            /\ inflight' = inflight \ {r}
            /\ UNCHANGED <<selectedFile, isVideo, videoResults, currentFrameIndex, preview,
                           readers, submits, progress>>
    /\ UNCHANGED <<swVars, auxVars>>

\* analyzeVideo(): catch block followed by finally. `after` is the request record
\* as the failing handler leaves it.
VideoFailure(r, after, text, arg) ==
    /\ event' = Event("analyzeVideo", NoFile, Toast(text, arg, "error"))
    /\ loading' = ShowLoading(FALSE, "Analyzing...")
    /\ inflight' = IF after.timer THEN (inflight \ {r}) \cup {after} ELSE inflight \ {r}
    /\ UNCHANGED <<selectedFile, isVideo, videoResults, currentFrameIndex, preview,
                   readers, submits, results, frameNav>>

\* xhr.onerror: the promise is rejected; the interval is not cleared here.
VideoError(r) ==
    /\ r \in inflight /\ r.pc = "sent"
    /\ VideoFailure(r, [r EXCEPT !.pc = "done"], "Video analysis failed: Network error", 0)
    /\ progress' = [progress EXCEPT !.hidden = TRUE]
    /\ UNCHANGED <<swVars, auxVars>>

\* xhr.onload (the handler assigned last): the interval is cleared and the fill
\* set to 100%. Status 200 resolves with JSON.parse(xhr.responseText); when
\* JSON.parse throws, the exception leaves the event handler and the promise is
\* neither resolved nor rejected, so the code after the await never runs. Any
\* other status rejects.
VideoLoad(r, status, body) ==
    /\ r \in inflight /\ r.pc = "sent"
    /\ IF status = 200
       THEN IF body = Unparsable
            THEN /\ inflight' = (inflight \ {r}) \cup {[r EXCEPT !.pc = "hung", !.timer = FALSE]}
                 /\ progress' = [progress EXCEPT !.width = 100]
                 /\ event' = Event("xhr.onload", NoFile, NoToast)
                 /\ UNCHANGED <<selectedFile, isVideo, videoResults, currentFrameIndex,
                                preview, readers, submits, loading, results, frameNav>>
            ELSE /\ videoResults' = body
                 /\ currentFrameIndex' = 0
                 /\ results' = DisplayVideoResultsSection(body, results)
                 /\ frameNav' = DisplayVideoResultsNav(body, frameNav)
                 /\ event' = Event("analyzeVideo", NoFile,
                                   Toast("Analyzed {} frames!", body.frames, "success"))
                 /\ loading' = ShowLoading(FALSE, "Analyzing...")
                 /\ progress' = [hidden |-> TRUE, width |-> 100]
                 /\ inflight' = inflight \ {r}
                 /\ UNCHANGED <<selectedFile, isVideo, preview, readers, submits>>
       ELSE /\ VideoFailure(r, [r EXCEPT !.pc = "done", !.timer = FALSE],
                            "Video analysis failed: Server error: {}", status)
            /\ progress' = [hidden |-> TRUE, width |-> 100]
    /\ UNCHANGED <<swVars, auxVars>>

\* ------------------------------------------------------------------------
\* Progress display of a video request
\* ------------------------------------------------------------------------
\* Mutant: the heuristic advances up to and including 90.
TickAdvances_Through90(ticks) == ticks <= 90

\* if (progress < 90)
TickAdvances(ticks) == ticks < 90

\* The callback of setInterval(..., 500) of request r. It runs for as long as the
\* interval is set, whatever became of the request.
Tick(r) ==
    /\ r \in inflight /\ r.timer
    /\ IF TickAdvances(r.ticks)
       THEN /\ inflight' = (inflight \ {r}) \cup {[r EXCEPT !.ticks = @ + 2]}
            /\ progress' = [progress EXCEPT !.width = r.ticks + 2]
            /\ loading' = [loading EXCEPT !.subtext = "Analyzing frames..."]
       ELSE \* clearInterval(progressInterval)
            /\ inflight' = IF r.pc = "done" THEN inflight \ {r}
                           ELSE (inflight \ {r}) \cup {[r EXCEPT !.timer = FALSE]}
            /\ UNCHANGED <<progress, loading>>
    /\ event' = Event("progressInterval", NoFile, NoToast)
    /\ UNCHANGED <<selectedFile, isVideo, videoResults, currentFrameIndex, preview,
                   readers, submits, results, frameNav>>
    /\ UNCHANGED <<swVars, auxVars>>

\* (e.loaded / e.total) * 30, with e.total = UploadParts
UploadPct(loaded) == (loaded * 30) \div UploadParts

\* xhr.upload.onprogress of request r: `loaded` of UploadParts parts are sent.
UploadProgress(r, loaded, lengthComputable) ==
    /\ r \in inflight /\ r.pc = "sent"
    /\ loaded > r.uploaded /\ loaded <= UploadParts
    /\ inflight' = (inflight \ {r}) \cup {[r EXCEPT !.uploaded = loaded]}
    /\ IF lengthComputable
       THEN /\ progress' = [progress EXCEPT !.width = UploadPct(loaded)]
            /\ loading' = [loading EXCEPT !.subtext = "Uploading video..."]
       ELSE UNCHANGED <<progress, loading>>
    /\ event' = Event("xhr.upload.onprogress", NoFile, NoToast)
    /\ UNCHANGED <<selectedFile, isVideo, videoResults, currentFrameIndex, preview,
                   readers, submits, results, frameNav>>
    /\ UNCHANGED <<swVars, auxVars>>

\* ------------------------------------------------------------------------
\* Theme
\* ------------------------------------------------------------------------
\* localStorage.getItem('theme') when nothing is stored
NoStoredTheme == "null"

\* What localStorage holds for 'theme' when the page is opened: nothing, or what
\* toggleTheme stored in an earlier visit.
StoredThemes == {NoStoredTheme, "dark", "light"}

\* updateThemeIcon(theme)
ThemeIcon(theme) == IF theme = "dark" THEN "moon" ELSE "sun"

\* localStorage.getItem('theme') || 'dark'
SavedTheme(stored) == IF stored = NoStoredTheme THEN "dark" ELSE stored

\* Mutant: the toggle always switches to light.
NewTheme_AlwaysLight(currentTheme) == "light"

\* currentTheme === 'dark' ? 'light' : 'dark'
NewTheme(currentTheme) == IF currentTheme = "dark" THEN "light" ELSE "dark"

\* An entry of themeLog: the function that applied a theme, and the theme.
Applied(op, theme) == [op |-> op, theme |-> theme]

\* loadTheme(), as the constructor runs it for a page opened with `stored` in
\* localStorage.
InitTheme(stored) ==
    /\ storedTheme = stored
    /\ dataTheme = SavedTheme(stored)
    /\ themeIcon = ThemeIcon(SavedTheme(stored))
    /\ themeLog = <<Applied("load", SavedTheme(stored))>>

\* The page is opened again: a new controller is constructed and runs loadTheme().
LoadTheme ==
    /\ Len(themeLog) <= MaxThemeOps
    /\ dataTheme' = SavedTheme(storedTheme)
    /\ themeIcon' = ThemeIcon(SavedTheme(storedTheme))
    /\ themeLog' = Append(themeLog, Applied("load", SavedTheme(storedTheme)))
    /\ UNCHANGED storedTheme
    /\ UNCHANGED <<statsResult, statsGrid>>
    /\ UNCHANGED <<swVars, appVars>>

\* toggleTheme()
ToggleTheme ==
    /\ Len(themeLog) <= MaxThemeOps
    /\ dataTheme' = NewTheme(dataTheme)
    /\ storedTheme' = NewTheme(dataTheme)
    /\ themeIcon' = ThemeIcon(NewTheme(dataTheme))
    /\ themeLog' = Append(themeLog, Applied("toggle", NewTheme(dataTheme)))
    /\ UNCHANGED <<statsResult, statsGrid>>
    /\ UNCHANGED <<swVars, appVars>>

\* ------------------------------------------------------------------------
\* Statistics of a single-image result
\* ------------------------------------------------------------------------
\* A label is the sequence of its words and separators: 'BIRD_DROP' is
\* <<"BIRD", "_", "DROP">> and 'Bird Drop' is <<"Bird", " ", "Drop">>. A field
\* that is absent from a detection is Absent.
Absent == << >>

\* The labels config.js knows for the non-defective class and for two faults,
\* in the spelling of the full pipeline and of the detector alone.
CLASS_ICONS ==
    {<<"Non", " ", "Defective">>, <<"NON", "_", "DEFECTIVE">>,
     <<"Bird", " ", "Drop">>, <<"BIRD", "_", "DROP">>,
     <<"Dust">>, <<"DUST">>}

\* The detections a response can carry: fault_type and class_name, each present
\* or absent.
Detections ==
    {[fault_type |-> <<"NON", "_", "DEFECTIVE">>, class_name |-> <<"Non", " ", "Defective">>],
     [fault_type |-> Absent, class_name |-> <<"Non", " ", "Defective">>],
     [fault_type |-> <<"BIRD", "_", "DROP">>, class_name |-> <<"Defective">>],
     [fault_type |-> Absent, class_name |-> <<"Dust">>],
     [fault_type |-> <<"DUST">>, class_name |-> Absent]}

\* All sequences over S of length at most n.
SeqsUpTo(S, n) == UNION {[1..k -> S] : k \in 0..n}

\* A response: result.detections is a list, or the response has no such field.
NoDetections == [hasDetections |-> FALSE, detections |-> << >>]

StatsResults ==
    {NoDetections} \cup
    {[hasDetections |-> TRUE, detections |-> d] : d \in SeqsUpTo(Detections, MaxDetections)}

\* det.fault_type || det.class_name
FaultLabel(det) == IF det.fault_type # Absent THEN det.fault_type ELSE det.class_name

\* fault.replace(/_/g, ' ')
ReplaceUnderscores(label) ==
    [i \in 1..Len(label) |-> IF label[i] = "_" THEN " " ELSE label[i]]

\* The keys of faultCounts in insertion order: each label at its first occurrence.
FaultKeys(detections) ==
    LET first == {i \in 1..Len(detections) :
                     \A j \in 1..(i - 1) : FaultLabel(detections[j]) # FaultLabel(detections[i])}
        F[k \in 0..Len(detections)] ==
            IF k = 0 THEN << >>
            ELSE IF k \in first THEN Append(F[k - 1], FaultLabel(detections[k]))
            ELSE F[k - 1]
    IN  F[Len(detections)]

\* faultCounts[ft]
FaultCount(detections, label) ==
    Cardinality({i \in 1..Len(detections) : FaultLabel(detections[i]) = label})

Card(value, label) == [value |-> value, label |-> label]

\* Mutant: every counted label gets a card.
ShowsFaultCard_All(fault) == TRUE

\* if (fault !== 'NON_DEFECTIVE')
ShowsFaultCard(fault) == fault # <<"NON", "_", "DEFECTIVE">>

\* result.detections?.length || 0
DetectionCount(result) == IF result.hasDetections THEN Len(result.detections) ELSE 0

\* displayStats(result): the three fixed cards, then one card per counted label.
StatsCards(result) ==
    LET fixed == <<Card(DetectionCount(result), <<"Detections">>),
                   Card(0, <<"Inference", " ", "Time">>),
                   Card(0, <<"Stages", " ", "Used">>)>>
        keys == IF result.hasDetections THEN FaultKeys(result.detections) ELSE << >>
        shown == SelectSeq(keys, ShowsFaultCard)
    IN  fixed \o [i \in 1..Len(shown) |->
                     Card(FaultCount(result.detections, shown[i]),
                          ReplaceUnderscores(shown[i]))]

\* displayStats(result) is called with a response
DisplayStats ==
    /\ statsGrid = << >>
    /\ statsGrid' = StatsCards(statsResult)
    /\ UNCHANGED statsResult
    /\ UNCHANGED <<storedTheme, dataTheme, themeIcon, themeLog>>
    /\ UNCHANGED <<swVars, appVars>>

\* The page before any statistics are rendered.
InitStats(result) ==
    /\ statsResult = result
    /\ statsGrid = << >>

InitAuxVars ==
    /\ InitTheme(NoStoredTheme)
    /\ InitStats(NoDetections)

\* ------------------------------------------------------------------------
\* Service worker: initial states and next-state relation
\* ------------------------------------------------------------------------
\* Either nothing was deployed before, or the previous version is active with
\* its populated store; a leftover store of the origin may exist in both cases.
InitialNames(hasOld, hasLeftover) ==
    (IF hasLeftover THEN <<LEFTOVER_CACHE_NAME>> ELSE << >>)
        \o (IF hasOld THEN <<OLD_CACHE_NAME>> ELSE << >>)

InitialEntries(hasOld, hasLeftover) ==
    [n \in SeqRange(InitialNames(hasOld, hasLeftover)) |->
        IF n = OLD_CACHE_NAME
        THEN [u \in SeqRange(ASSETS_TO_CACHE) |-> OldBody]
        ELSE [u \in {IndexUrl, <<"icons", "icon.png">>} |-> OldBody]]

InitSWVars(hasOld, hasLeftover) ==
    /\ oldState = IF hasOld THEN "activated" ELSE "none"
    /\ controller = IF hasOld THEN "old" ELSE "none"
    /\ cacheNames = InitialNames(hasOld, hasLeftover)
    /\ cacheEntries = InitialEntries(hasOld, hasLeftover)
    /\ newPc = "parsed"
    /\ skipWaitingFlag = FALSE
    /\ tasks = {}
    /\ keysSnapshot = << >>
    /\ preActivate = << >>
    /\ preInstall = [controller |-> controller, oldState |-> oldState,
                     entries |-> cacheEntries]
    /\ attempts = 0
    /\ assetFailed = FALSE
    /\ last = NoLast

InitSW ==
    /\ \E hasOld \in BOOLEAN, hasLeftover \in BOOLEAN : InitSWVars(hasOld, hasLeftover)
    /\ InitAppVars
    /\ InitAuxVars

NextSW ==
    \/ InstallOpen
    \/ InstallAddAll
    \/ InstallSkipWaiting
    \/ InstallRetry
    \/ Activate
    \/ ActivateKeys
    \/ ActivateDelete
    \/ ActivateClaim
    \/ \E w \in Workers, req \in Requests : FetchEvent(w, req)
    \/ \E t \in tasks, status \in NetStatuses, body \in Bodies : NetReply(t, status, body)
    \/ \E t \in tasks : NetFail(t)
    \/ \E t \in tasks : CachePut(t)

SpecSW == InitSW /\ [][NextSW]_vars

\* ------------------------------------------------------------------------
\* Page controller: initial state and next-state relation
\* ------------------------------------------------------------------------
\* The events of the page except the two that only drive the progress display
\* of a video request (upload progress and the interval timer).
InitApp ==
    /\ InitSWVars(FALSE, FALSE)
    /\ InitAppVars
    /\ InitAuxVars

NextApp ==
    \/ \E files \in DropLists : HandleDrop(files)
    \/ \E files \in PickerLists : HandleFileSelect(files)
    \/ \E files \in CameraLists : CameraChange(files)
    \/ \E file \in readers : ReaderLoad(file)
    \/ ClearPreview
    \/ StartNewAnalysis
    \/ AnalyzeImage
    \/ \E r \in inflight : ImageFetchFails(r)
    \/ \E r \in inflight, status \in Statuses : ImageResponse(r, status)
    \/ \E r \in inflight, body \in ImagePayloads \cup {Unparsable} : ImageBody(r, body)
    \/ \E r \in inflight : VideoError(r)
    \/ \E r \in inflight, status \in Statuses, body \in VideoPayloads \cup {Unparsable} :
          VideoLoad(r, status, body)
    \/ ShowPrevFrame
    \/ ShowNextFrame

SpecApp == InitApp /\ [][NextApp]_vars

\* ------------------------------------------------------------------------
\* Page controller: selection and preview only (no analysis is submitted)
\* ------------------------------------------------------------------------
NextSelect ==
    \/ \E files \in DropLists : HandleDrop(files)
    \/ \E files \in PickerLists : HandleFileSelect(files)
    \/ \E files \in CameraLists : CameraChange(files)
    \/ \E file \in readers : ReaderLoad(file)
    \/ ClearPreview
    \/ StartNewAnalysis

SpecSelect == InitApp /\ [][NextSelect]_vars

\* ------------------------------------------------------------------------
\* Page controller: one video request and its progress events
\* ------------------------------------------------------------------------
\* e.target.files of the file input when the user picks the video.
VideoLists == {<<[type |-> "video/mp4", size |-> MAX_VIDEO_SIZE]>>}

NextProgress ==
    \/ \E files \in VideoLists : HandleFileSelect(files)
    \/ \E file \in readers : ReaderLoad(file)
    \/ AnalyzeImage
    \/ \E r \in inflight : VideoError(r)
    \/ \E r \in inflight, status \in Statuses, body \in VideoPayloads \cup {Unparsable} :
          VideoLoad(r, status, body)
    \/ \E r \in inflight : Tick(r)
    \/ \E r \in inflight, loaded \in 1..UploadParts, lengthComputable \in BOOLEAN :
          UploadProgress(r, loaded, lengthComputable)

SpecProgress == InitApp /\ [][NextProgress]_vars

\* ------------------------------------------------------------------------
\* Page controller: files that pass validation are picked and submitted, also
\* while an earlier request is still in flight (the preview reads are left to
\* SpecApp)
\* ------------------------------------------------------------------------
\* e.target.files of the file input when the user picks the image or the video.
AcceptedLists ==
    {<<[type |-> "image/jpeg", size |-> MAX_FILE_SIZE]>>,
     <<[type |-> "video/mp4", size |-> MAX_VIDEO_SIZE]>>}

\* The analyze button is clicked, also while a request is in flight.
AnalyzeImageAgain == Submit(MaxResubmits)

NextResubmit ==
    \/ \E files \in AcceptedLists : HandleFileSelect(files)
    \/ ClearPreview
    \/ StartNewAnalysis
    \/ AnalyzeImageAgain
    \/ \E r \in inflight : ImageFetchFails(r)
    \/ \E r \in inflight, status \in Statuses : ImageResponse(r, status)
    \/ \E r \in inflight, body \in ImagePayloads \cup {Unparsable} : ImageBody(r, body)
    \/ \E r \in inflight : VideoError(r)
    \/ \E r \in inflight, status \in Statuses,
          body \in VideoPayloads \cup LongVideoPayloads \cup {Unparsable} :
          VideoLoad(r, status, body)
    \/ ShowPrevFrame
    \/ ShowNextFrame

SpecResubmit == InitApp /\ [][NextResubmit]_vars

\* ------------------------------------------------------------------------
\* Page controller: analyses that all succeed, one after or during another, and
\* frame navigation in their results
\* ------------------------------------------------------------------------
\* The analyze button is clicked, also while a request is in flight.
AnalyzeImageNext == Submit(MaxNavSubmits)

NextNav ==
    \/ \E files \in AcceptedLists : HandleFileSelect(files)
    \/ StartNewAnalysis
    \/ AnalyzeImageNext
    \/ \E r \in inflight : ImageResponse(r, 200)
    \/ \E r \in inflight, body \in ImagePayloads : ImageBody(r, body)
    \/ \E r \in inflight, body \in VideoPayloads : VideoLoad(r, 200, body)
    \/ ShowPrevFrame
    \/ ShowNextFrame

SpecNav == InitApp /\ [][NextNav]_vars

\* ------------------------------------------------------------------------
\* Page controller: files of every kind arrive by drop, picker and camera, and
\* the analyze button is clicked between them (the preview reads are left to
\* SpecApp)
\* ------------------------------------------------------------------------
NextSend ==
    \/ \E files \in DropLists : HandleDrop(files)
    \/ \E files \in PickerLists : HandleFileSelect(files)
    \/ \E files \in CameraLists : CameraChange(files)
    \/ ClearPreview
    \/ StartNewAnalysis
    \/ AnalyzeImageAgain
    \/ \E r \in inflight : ImageFetchFails(r)
    \/ \E r \in inflight : ImageResponse(r, 200)
    \/ \E r \in inflight, body \in ImagePayloads : ImageBody(r, body)
    \/ \E r \in inflight : VideoError(r)
    \/ \E r \in inflight, body \in VideoPayloads : VideoLoad(r, 200, body)

SpecSend == InitApp /\ [][NextSend]_vars

\* ------------------------------------------------------------------------
\* Statistics: displayStats applied to each response
\* ------------------------------------------------------------------------
InitStatsSpec ==
    /\ InitSWVars(FALSE, FALSE)
    /\ InitAppVars
    /\ InitTheme(NoStoredTheme)
    /\ \E result \in StatsResults : InitStats(result)

NextStats == DisplayStats

SpecStats == InitStatsSpec /\ [][NextStats]_vars

\* ------------------------------------------------------------------------
\* Theme: page loads and toggles
\* ------------------------------------------------------------------------
InitThemeSpec ==
    /\ InitSWVars(FALSE, FALSE)
    /\ InitAppVars
    /\ InitStats(NoDetections)
    /\ \E stored \in StoredThemes : InitTheme(stored)

NextTheme ==
    \/ LoadTheme
    \/ ToggleTheme

SpecTheme == InitThemeSpec /\ [][NextTheme]_vars

\* ------------------------------------------------------------------------
\* Statistics of a video result
\* ------------------------------------------------------------------------
\* The detections a frame can carry: class_name present or absent.
VideoDetections ==
    {[class_name |-> <<"Dust">>], [class_name |-> Absent]}

\* A frame of a video response: frame.detections is a list, or the frame has no
\* such field.
Frames ==
    {NoDetections} \cup
    {[hasDetections |-> TRUE, detections |-> d] :
        d \in SeqsUpTo(VideoDetections, MaxFrameDetections)}

\* The video responses displayVideoStats is given; total_frames is the number
\* of frames of the response.
VideoStatsResults ==
    {[kind |-> "video", id |-> "vidS", total_frames |-> Len(fs), frames |-> fs] :
        fs \in SeqsUpTo(Frames, MaxFrames)}

\* f.detections || []
FrameDetections(f) == IF f.hasDetections THEN f.detections ELSE << >>

\* Mutant: only the detections of the first frame are collected.
AllDetections_FirstFrame(frames) ==
    IF frames = << >> THEN << >> ELSE FrameDetections(frames[1])

\* result.frames.flatMap(f => f.detections || [])
AllDetections(frames) ==
    LET F[k \in 0..Len(frames)] ==
            IF k = 0 THEN << >> ELSE F[k - 1] \o FrameDetections(frames[k])
    IN  F[Len(frames)]

\* det.class_name || 'Unknown'
ClassLabel(det) == IF det.class_name # Absent THEN det.class_name ELSE <<"Unknown">>

\* The keys of classCounts in insertion order: each class at its first occurrence.
ClassKeys(detections) ==
    LET first == {i \in 1..Len(detections) :
                     \A j \in 1..(i - 1) : ClassLabel(detections[j]) # ClassLabel(detections[i])}
        F[k \in 0..Len(detections)] ==
            IF k = 0 THEN << >>
            ELSE IF k \in first THEN Append(F[k - 1], ClassLabel(detections[k]))
            ELSE F[k - 1]
    IN  F[Len(detections)]

\* classCounts[cls]
ClassCount(detections, label) ==
    Cardinality({i \in 1..Len(detections) : ClassLabel(detections[i]) = label})

\* displayVideoStats(result): the four fixed cards, then one card per class.
VideoStatsCards(result) ==
    LET allDetections == AllDetections(result.frames)
        fixed == <<Card(result.total_frames, <<"Frames", " ", "Analyzed">>),
                   Card(Len(allDetections), <<"Total", " ", "Detections">>),
                   Card(0, <<"Processing", " ", "Time">>),
                   Card(0, <<"Video", " ", "Duration">>)>>
        keys == ClassKeys(allDetections)
    IN  fixed \o [i \in 1..Len(keys) |-> Card(ClassCount(allDetections, keys[i]), keys[i])]

\* What the frame navigation of the model reads of a held video response: its
\* identity and the number of its frames.
Held(result) == [kind |-> "video", id |-> result.id, frames |-> Len(result.frames)]

\* analyzeVideo() after its request resolved with the response statsResult: the
\* response is held, frame 0 is shown and displayVideoStats fills the grid.
DisplayVideoResults ==
    /\ statsGrid = << >>
    /\ videoResults' = Held(statsResult)
    /\ currentFrameIndex' = 0
    /\ results' = DisplayVideoResultsSection(Held(statsResult), results)
    /\ frameNav' = DisplayVideoResultsNav(Held(statsResult), frameNav)
    /\ statsGrid' = VideoStatsCards(statsResult)
    /\ event' = Event("analyzeVideo", NoFile,
                      Toast("Analyzed {} frames!", statsResult.total_frames, "success"))
    /\ UNCHANGED <<selectedFile, isVideo, preview, readers, inflight, submits, loading,
                   progress>>
    /\ UNCHANGED <<storedTheme, dataTheme, themeIcon, themeLog, statsResult>>
    /\ UNCHANGED swVars

\* ------------------------------------------------------------------------
\* Video statistics: displayVideoStats applied to each response, followed by
\* frame navigation
\* ------------------------------------------------------------------------
InitVideoStatsSpec ==
    /\ InitSWVars(FALSE, FALSE)
    /\ InitAppVars
    /\ InitTheme(NoStoredTheme)
    /\ \E result \in VideoStatsResults : InitStats(result)

NextVideoStats ==
    \/ DisplayVideoResults
    \/ ShowPrevFrame
    \/ ShowNextFrame

SpecVideoStats == InitVideoStatsSpec /\ [][NextVideoStats]_vars

\* ------------------------------------------------------------------------
\* Service worker: properties
\* ------------------------------------------------------------------------
\* The text '/api/' occurs in the URL.
HasApiMarker(url) == \E i \in 1..Len(url) : url[i] = "api" /\ i < Len(url)

StoredUrls == UNION {DOMAIN cacheEntries[n] : n \in DOMAIN cacheEntries}

\* C1: a request whose URL contains '/api/' is left to the browser's network
\* fetch: the listener does not answer it, no cache lookup result is served for
\* it, no handler continuation (network fetch followed by a cache write) exists
\* for it, and no store ever holds an entry under such a URL.
C1_ApiBypassesCache ==
    /\ (last.kind = "event" /\ HasApiMarker(last.req.url))
          => (last.answer = "default" /\ last.net /\ last.body = NoResponse)
    /\ last.kind \in {"reply", "fail", "put"} => ~HasApiMarker(last.req.url)
    /\ \A t \in tasks : ~HasApiMarker(t.req.url)
    /\ \A u \in StoredUrls : ~HasApiMarker(u)

\* An API request whose marker is not at the start of the path was handled by the
\* new worker while its store holds entries written at run time.
C1_Witness ==
    /\ last.kind = "event" /\ last.worker = "new"
    /\ last.req.url = <<"docs", "api", "index.html">>
    /\ DOMAIN cacheEntries[CACHE_NAME] # SeqRange(ASSETS_TO_CACHE)

\* C2: once install has completed, every path of ASSETS_TO_CACHE has a match in
\* the cache storage, and a fetch event for it is answered from the cache without
\* a network request.
C2_ShellServedFromCache ==
    /\ InstallDone =>
          \A a \in SeqRange(ASSETS_TO_CACHE) :
              CachesMatch(cacheNames, cacheEntries, a) # NoResponse
    /\ (last.kind = "event" /\ last.installed /\ last.req.url \in SeqRange(ASSETS_TO_CACHE))
          => (last.answer = "cache" /\ ~last.net /\ last.body # NoResponse)

\* The new worker answered the last manifest path from the store it populated,
\* after the stores of the previous version were deleted.
C2_Witness ==
    /\ last.kind = "event" /\ last.installed /\ last.worker = "new"
    /\ last.req.url = <<"manifest.json">>
    /\ last.answer = "cache" /\ last.body \in Bodies
    /\ oldState = "redundant"

\* C3: the step that completes activation leaves no store whose name differs
\* from CACHE_NAME, and the CACHE_NAME store holds exactly the entries it held
\* when the activate listener started.
C3_ActivationDeletesStaleOnly ==
    [][(newPc = "deleted" /\ newPc' = "activated") =>
          /\ \A i \in 1..Len(cacheNames') : cacheNames'[i] = CACHE_NAME
          /\ DOMAIN cacheEntries' = {CACHE_NAME}
          /\ CACHE_NAME \in DOMAIN preActivate
          /\ cacheEntries'[CACHE_NAME] = preActivate[CACHE_NAME]]_vars

\* Activation completed after starting with two stale stores beside the current one.
C3_Witness ==
    /\ newPc = "activated"
    /\ DOMAIN preActivate = {LEFTOVER_CACHE_NAME, OLD_CACHE_NAME, CACHE_NAME}
    /\ cacheNames = <<CACHE_NAME>>
    /\ last.worker # "new"

\* C4 as stated: exactly one store exists in every state, and none with a stale
\* name once the new worker serves.
C4_ExactlyOneStoreAlways ==
    /\ Len(cacheNames) = 1
    /\ Serving("new") => StaleNames(cacheNames) = {}

\* C4 as amended: from the moment the new worker serves fetches, exactly one
\* store exists, the one named CACHE_NAME; before that, the only stores are those
\* that existed when install started and the CACHE_NAME store.
C4_OneStoreOnceServing ==
    /\ Serving("new") => cacheNames = <<CACHE_NAME>> /\ DOMAIN cacheEntries = {CACHE_NAME}
    /\ newPc # "parsed" =>
          /\ CACHE_NAME \in DOMAIN cacheEntries
          /\ DOMAIN cacheEntries \subseteq DOMAIN preInstall.entries \cup {CACHE_NAME}

\* The new worker replaced an active old one and has written a run-time entry.
C4_Witness ==
    /\ Serving("new") /\ oldState = "redundant"
    /\ last.kind = "put" /\ last.worker = "new"
    /\ DOMAIN preActivate = {LEFTOVER_CACHE_NAME, OLD_CACHE_NAME, CACHE_NAME}

\* C5: when an asset fails during addAll, the install fails as a whole: nothing
\* is stored by it, skipWaiting is not called, the new worker neither activates
\* nor controls the pages, and the worker that was active and in control before
\* still is.
C5_InstallFailsAtomically ==
    assetFailed =>
        /\ newPc = "redundant"
        /\ ~skipWaitingFlag
        /\ controller # "new" /\ controller = preInstall.controller
        /\ oldState = preInstall.oldState
        /\ cacheEntries[CACHE_NAME] =
              IF CACHE_NAME \in DOMAIN preInstall.entries
              THEN preInstall.entries[CACHE_NAME] ELSE << >>

\* An install failed while the previous version was active, and the previous
\* version went on answering fetches.
C5_Witness ==
    /\ assetFailed /\ newPc = "redundant"
    /\ oldState = "activated" /\ controller = "old"
    /\ last.kind = "event" /\ last.worker = "old" /\ ~last.installed

\* C6: when the network fetch of a navigation request fails, the listener
\* answers with the response cached for '/index.html' (a response, not undefined).
C6_NavigationFallsBackToShell ==
    (last.kind = "fail" /\ last.req.mode = "navigate")
        => /\ last.answer = "fallback"
           /\ last.body \in Bodies \cup {OldBody}

\* The navigation to "/api" missed the cache, failed on the network and was
\* answered with the shell page.
C6_Witness ==
    /\ last.kind = "fail" /\ last.req = [url |-> <<"api">>, mode |-> "navigate"]
    /\ last.answer = "fallback" /\ last.worker = "new"

\* C18: when the listener returns a network response for a cache miss, the
\* response is in the worker's store by then if its status is a success status
\* (200..299), and otherwise it is not written: no cache write is pending or done
\* for it.
C18_StoredBeforeReturnedIffSuccess ==
    last.kind = "reply" =>
        LET name == WorkerCacheName(last.worker)
            stored == /\ name \in DOMAIN cacheEntries
                      /\ last.req.url \in DOMAIN cacheEntries[name]
                      /\ cacheEntries[name][last.req.url] = last.body
            pending == \E t \in tasks : t.pc = "put" /\ t.req = last.req
        IN  /\ last.answer = "network"
            /\ (last.status >= 200 /\ last.status <= 299) => stored
            /\ ~(last.status >= 200 /\ last.status <= 299) => ~stored /\ ~pending

\* Some store holds an entry for the URL.
HasExactMatch(url) == \E n \in DOMAIN cacheEntries : url \in DOMAIN cacheEntries[n]

\* C19: a fetch event for a non-API request that has a match in the cache
\* storage is answered with the cached response (of the first store holding
\* it), starts no network fetch and no handler continuation, and changes no store.
C19_CacheHitNeedsNoNetwork ==
    [][(last' # last /\ last'.kind = "event" /\ ~HasApiMarker(last'.req.url)
            /\ HasExactMatch(last'.req.url)) =>
          /\ last'.answer = "cache" /\ ~last'.net
          /\ \E i \in 1..Len(cacheNames) :
                /\ last'.req.url \in DOMAIN cacheEntries[cacheNames[i]]
                /\ last'.body = cacheEntries[cacheNames[i]][last'.req.url]
                /\ \A j \in 1..(i - 1) : last'.req.url \notin DOMAIN cacheEntries[cacheNames[j]]
          /\ tasks' = tasks
          /\ cacheEntries' = cacheEntries /\ cacheNames' = cacheNames]_vars

\* The new worker answered from its store a URL outside the manifest, which an
\* earlier fetch had written there, while another fetch was in flight.
C19_Witness ==
    /\ last.kind = "event" /\ last.worker = "new" /\ last.answer = "cache"
    /\ last.req.url = <<"icons", "icon.png">>
    /\ last.body \in Bodies
    /\ tasks # {}

\* C20: when the network fetch of a request that is not a navigation fails, the
\* listener answers with no response at all (the caller sees a network error),
\* also when the shell page is in the cache.
C20_NoFallbackForSubresources ==
    (last.kind = "fail" /\ last.req.mode # "navigate")
        => /\ last.answer = "error"
           /\ last.body = NoResponse
           /\ last.status = 0

\* The fetch of an image outside the manifest failed while the shell page was
\* cached, and the caller got the failure.
C20_Witness ==
    /\ last.kind = "fail" /\ last.req.url = <<"icons", "icon.png">>
    /\ last.req.mode = "no-cors"
    /\ last.answer = "error" /\ last.worker = "new"
    /\ CachesMatch(cacheNames, cacheEntries, IndexUrl) # NoResponse

\* ------------------------------------------------------------------------
\* Page controller: properties
\* ------------------------------------------------------------------------
InAllowList(file) == file.type \in SUPPORTED_TYPES \cup SUPPORTED_VIDEO_TYPES

\* C7: a processFile call with a file whose type is in neither allow-list shows
\* an error toast and leaves selectedFile, isVideo and the preview elements as
\* they were before the call.
C7_RejectedTypeChangesNothing ==
    [][(event'.name = "processFile" /\ ~InAllowList(event'.arg)) =>
          /\ event'.toast.type = "error"
          /\ selectedFile' = selectedFile
          /\ isVideo' = isVideo
          /\ preview' = preview]_vars

\* C8: processFile makes the file the selected one (and starts its preview)
\* exactly when it is a video of at most 50MB or an image of at most 10MB; a
\* file over the ceiling of its own class gets the toast naming that ceiling in
\* MB and the selected file stays what it was.
C8_AdoptsIffTypeAndSizeAllowed ==
    [][event'.name = "processFile" =>
          LET f == event'.arg
              okVideo == f.type \in SUPPORTED_VIDEO_TYPES /\ f.size <= 50 * 1024 * 1024
              okImage == f.type \in SUPPORTED_TYPES /\ f.size <= 10 * 1024 * 1024
          IN  /\ (selectedFile' = f /\ f \in readers') <=> (okVideo \/ okImage)
              /\ ~(okVideo \/ okImage) => selectedFile' = selectedFile
              /\ (InAllowList(f) /\ ~(okVideo \/ okImage)) =>
                    event'.toast = Toast("File size must be less than {}MB",
                                         IF f.type \in SUPPORTED_VIDEO_TYPES THEN 50 ELSE 10,
                                         "error")]_vars

\* With an image selected, a video one byte over the video ceiling was rejected
\* with the 50MB message.
C8_Witness ==
    /\ event.name = "processFile"
    /\ event.arg = [type |-> "video/quicktime", size |-> MAX_VIDEO_SIZE + 1]
    /\ event.toast.arg = 50
    /\ selectedFile = [type |-> "image/jpeg", size |-> MAX_FILE_SIZE]

\* C9: whenever a file is selected, isVideo tells whether its type is a video
\* type, and every request that was sent went to the endpoint of its file's class.
C9_TagAgreesWithSelectedFile ==
    /\ selectedFile # NoFile => (isVideo <=> selectedFile.type \in SUPPORTED_VIDEO_TYPES)
    /\ \A r \in inflight :
          r.endpoint = IF r.file.type \in SUPPORTED_VIDEO_TYPES
                       THEN "/api/analyze-video" ELSE "/api/analyze"

\* C10, in the form a finite run refutes: once no request is waiting for its
\* response any more (every response or failure has been delivered and handled),
\* the loading overlay is hidden.
C10_LoadingHiddenOnceSettled ==
    (\A r \in inflight : r.pc \notin {"fetch", "json", "sent"}) => ~loading.shown

\* C11: in every state at most one analysis request (image or video) is
\* awaiting its response, also after the analyze button is clicked again.
C11_AtMostOneInFlight ==
    Cardinality({r \in inflight : Awaiting(r)}) <= 1

\* A step in which the response of a video request arrives (xhr.onload runs).
ResponseArrives ==
    /\ \E r \in inflight : r.kind = "video" /\ r.pc = "sent" /\ r \notin inflight'
    /\ event'.name \in {"xhr.onload", "analyzeVideo"}
    /\ event'.toast.text # "Video analysis failed: Network error"

\* C12: while a video request is waiting for its response the fill of the
\* progress indicator is at most 90%, and the step in which a response arrives
\* sets it to 100%, whatever the status.
C12_ProgressCappedUntilResponse ==
    [][/\ \A r \in inflight' : (r.kind = "video" /\ r.pc = "sent") =>
              progress'.width <= 90
       /\ ResponseArrives => progress'.width = 100]_vars

\* C13: a video request that has settled (response of any status, unparsable
\* body, or transport failure) has no interval timer set any more, and the
\* interval callback only ever runs while a video request awaits its response.
C13_TimerClearedOnSettle ==
    /\ \A r \in inflight : r.pc \in {"done", "hung"} => ~r.timer
    /\ event.name = "progressInterval" =>
          \E r \in inflight : r.kind = "video" /\ r.pc = "sent"

\* C14: while a video result with n >= 1 frames is held, the current frame
\* index is in 0..n-1; 'next' below n-1 moves to the following frame and shows
\* it, 'previous' above 0 moves to the preceding frame and shows it (so every
\* index is reached from 0), and 'previous' at 0 and 'next' at n-1 change neither
\* the index nor what is displayed.
C14_FrameIndexClamped ==
    [][LET n == videoResults.frames
           i == currentFrameIndex
           held == videoResults # NoResult /\ videoResults.frames >= 1
           shows(j) == /\ results'.images = Shown(videoResults.id, j)
                       /\ results'.detections = Shown(videoResults.id, j)
                       /\ frameNav'.counter = <<j + 1, n>>
       IN  /\ (videoResults' # NoResult /\ videoResults'.frames >= 1) =>
                 currentFrameIndex' \in 0..(videoResults'.frames - 1)
           /\ (held /\ event'.name = "showNextFrame") =>
                 IF i < n - 1
                 THEN currentFrameIndex' = i + 1 /\ shows(i + 1)
                 ELSE currentFrameIndex' = i /\ results' = results /\ frameNav' = frameNav
           /\ (held /\ event'.name = "showPrevFrame") =>
                 IF i > 0
                 THEN currentFrameIndex' = i - 1 /\ shows(i - 1)
                 ELSE currentFrameIndex' = i /\ results' = results /\ frameNav' = frameNav]_vars

\* The last frame of the three-frame result was stepped to, and 'next' was then
\* clicked once more.
C14_Witness ==
    /\ videoResults \in LongVideoPayloads
    /\ currentFrameIndex = videoResults.frames - 1
    /\ results.images = Shown(videoResults.id, videoResults.frames - 1)
    /\ frameNav.counter = <<videoResults.frames, videoResults.frames>>
    /\ event.name = "showNextFrame"

\* A step in which an analysis request ends in its catch block.
RequestFails ==
    /\ event'.name \in {"analyzeImageFile", "analyzeVideo"}
    /\ event'.toast.type = "error"

\* C15: a response without a success status never reaches the parsing of a
\* result; a step that ends the wait of a request either hands its body on,
\* reports success, or reports an error; and the step in which a request fails
\* shows an error toast, issues no request, and leaves the held video result,
\* the frame index, the results section and the frame navigation as they were.
C15_FailureChangesNoResult ==
    [][/\ \A r \in inflight' : r.pc = "json" => (r.status >= 200 /\ r.status <= 299)
       /\ \A r \in inflight :
             (Awaiting(r) /\ r \notin inflight') =>
                 \/ event'.toast.type \in {"error", "success"}
                 \/ \E q \in inflight' : q.id = r.id /\ q.pc \in {"json", "hung"}
       /\ RequestFails =>
             /\ \E r \in inflight : Awaiting(r) /\ r \notin inflight'
             /\ {r.id : r \in inflight'} \subseteq {r.id : r \in inflight}
             /\ Cardinality({r \in inflight' : Awaiting(r)})
                   = Cardinality({r \in inflight : Awaiting(r)}) - 1
             /\ submits' = submits
             /\ videoResults' = videoResults
             /\ currentFrameIndex' = currentFrameIndex
             /\ results' = results
             /\ frameNav' = frameNav]_vars

\* After a video result was rendered and stepped through, a second submission
\* failed with a server error.
C15_Witness ==
    /\ event.name = "analyzeVideo" /\ event.toast.type = "error" /\ event.toast.arg = 500
    /\ submits = 2
    /\ videoResults \in VideoPayloads /\ currentFrameIndex = 1
    /\ results.images = Shown(videoResults.id, 1) /\ ~results.hidden

\* ------------------------------------------------------------------------
\* Statistics and theme: properties
\* ------------------------------------------------------------------------
\* The labels under which config.js knows the non-defective class, as displayed.
NonDefectiveLabels == {<<"Non", " ", "Defective">>, <<"NON", " ", "DEFECTIVE">>}

\* The cards that follow the three fixed ones.
TallyCards == {statsGrid[i] : i \in 4..Len(statsGrid)}

\* C16: in the rendered statistics the first card shows the number of
\* detections of the response, and the tally has exactly one card per distinct
\* label (fault_type, else class_name) carrying its number of occurrences,
\* except that the non-defective class has no card.
C16_TallyExcludesNonDefective ==
    statsGrid # << >> =>
        LET dets == statsResult.detections
            labelOf(i) == IF dets[i].fault_type # Absent THEN dets[i].fault_type
                          ELSE dets[i].class_name
            spaced(l) == [k \in 1..Len(l) |-> IF l[k] = "_" THEN " " ELSE l[k]]
            count(l) == Cardinality({i \in 1..Len(dets) : labelOf(i) = l})
            expected == {[value |-> count(labelOf(i)), label |-> spaced(labelOf(i))] :
                            i \in {j \in 1..Len(dets) : spaced(labelOf(j)) \notin NonDefectiveLabels}}
        IN  /\ statsGrid[1] = [value |-> Len(dets), label |-> <<"Detections">>]
            /\ TallyCards = expected
            /\ Len(statsGrid) = 3 + Cardinality(expected)

\* C17: the applied theme is 'dark' or 'light' and equals the stored preference
\* when one is stored; with nothing stored the page shows 'dark'; every toggle
\* applies the other theme and stores it, every page load applies what the
\* previous visit left, and two toggles in a row give back the theme before them.
C17_ThemeFollowsStoredPreference ==
    /\ dataTheme \in {"dark", "light"}
    /\ storedTheme # "null" => dataTheme = storedTheme
    /\ storedTheme = "null" => dataTheme = "dark"
    /\ themeIcon = (IF dataTheme = "dark" THEN "moon" ELSE "sun")
    /\ themeLog[Len(themeLog)].theme = dataTheme
    /\ themeLog[Len(themeLog)].op = "toggle" => storedTheme = dataTheme
    /\ \A i \in 2..Len(themeLog) :
          /\ themeLog[i].op = "toggle" =>
                {themeLog[i].theme, themeLog[i - 1].theme} = {"dark", "light"}
          /\ themeLog[i].op = "load" => themeLog[i].theme = themeLog[i - 1].theme
          /\ (i > 2 /\ themeLog[i].op = "toggle" /\ themeLog[i - 1].op = "toggle") =>
                themeLog[i].theme = themeLog[i - 2].theme

\* A page that opened with 'light' stored was toggled twice and opened again.
C17_Witness ==
    /\ Len(themeLog) >= 4
    /\ themeLog[1] = [op |-> "load", theme |-> "light"]
    /\ themeLog[2].op = "toggle" /\ themeLog[3].op = "toggle" /\ themeLog[4].op = "load"
    /\ dataTheme = "light"

\* A request whose body is still being uploaded.
Uploading(r) == r.kind = "video" /\ r.pc = "sent" /\ r.uploaded < UploadParts

\* C21: an upload progress event sets the fill to 30% times the fraction of the
\* body sent so far (30% when all of it is sent), and the interval callback
\* changes the fill only once the upload has completed, never while a request
\* is still uploading.
C21_TicksOnlyAfterUpload ==
    [][/\ (event'.name = "xhr.upload.onprogress" /\ progress' # progress) =>
              \E r \in inflight' :
                  /\ r.pc = "sent"
                  /\ progress'.width * UploadParts = 30 * r.uploaded
                  /\ (r.uploaded = UploadParts => progress'.width = 30)
       /\ (event'.name = "progressInterval" /\ progress' # progress) =>
              \A r \in inflight : ~Uploading(r)]_vars

\* C22: the step in which a video analysis succeeds holds the new response with
\* frame index 0 and shows the images and detections of its first frame, and
\* after the step in which a single-image analysis succeeds no video result is
\* held.
C22_ResultReplacedOnSuccess ==
    [][/\ (event'.name = "analyzeVideo" /\ event'.toast.type = "success") =>
              /\ videoResults' \in VideoPayloads \cup LongVideoPayloads
              /\ videoResults'.frames = event'.toast.arg
              /\ currentFrameIndex' = 0
              /\ ~results'.hidden
              /\ results'.images = Shown(videoResults'.id, 0)
              /\ results'.detections = Shown(videoResults'.id, 0)
       /\ (event'.name = "analyzeImageFile" /\ event'.toast.type = "success") =>
              videoResults' = NoResult]_vars

\* The sum of the numbers in a sequence.
SumSeq(s) ==
    LET F[k \in 0..Len(s)] == IF k = 0 THEN 0 ELSE F[k - 1] + s[k]
    IN  F[Len(s)]

\* The number of detections each frame of a video response carries.
FrameCounts(result) ==
    [i \in 1..Len(result.frames) |->
        IF result.frames[i].hasDetections THEN Len(result.frames[i].detections) ELSE 0]

\* The cards that follow the four fixed ones: one per class.
ClassCards == SubSeq(statsGrid, 5, Len(statsGrid))

\* C23: once the statistics of a video result are displayed, whatever frame
\* the navigation has moved to, the 'Total Detections' card shows the sum of the
\* detection counts of all frames, the per-class cards name distinct classes
\* and their counts sum to that total.
C23_VideoTotalsOverAllFrames ==
    statsGrid # << >> =>
        /\ statsGrid[2].label = <<"Total", " ", "Detections">>
        /\ statsGrid[2].value = SumSeq(FrameCounts(statsResult))
        /\ SumSeq([i \in 1..Len(ClassCards) |-> ClassCards[i].value]) = statsGrid[2].value
        /\ \A i, j \in 1..Len(ClassCards) :
              ClassCards[i].label = ClassCards[j].label => i = j

\* The statistics of a two-frame result with two detections in the first frame
\* and one in the second, of two classes, while the second frame is shown.
C23_Witness ==
    /\ statsGrid # << >>
    /\ Len(statsResult.frames) = 2
    /\ FrameCounts(statsResult) = <<2, 1>>
    /\ currentFrameIndex = 1
    /\ results.detections = Shown("vidS", 1)
    /\ statsGrid[2].value = 3
    /\ Len(ClassCards) = 2

\* C24: the frame-navigation control is created, and its two handlers bound, at
\* most once however many results are displayed; a click on 'previous' or
\* 'next' moves the frame index by at most one; displaying a single-image
\* result hides an existing control and displaying a video result shows it.
C24_OneNavigationBoundOnce ==
    [][/\ frameNav'.bindings <= 1
       /\ frameNav'.state = "absent" <=> frameNav'.bindings = 0
       /\ event'.name \in {"showPrevFrame", "showNextFrame"} =>
              /\ currentFrameIndex' - currentFrameIndex \in {-1, 0, 1}
              /\ frameNav'.bindings = 1
       /\ (event'.name = "analyzeImageFile" /\ event'.toast.type = "success") =>
              frameNav'.state # "shown"
       /\ (event'.name = "analyzeVideo" /\ event'.toast.type = "success") =>
              frameNav'.state = "shown"]_vars

\* Three analyses have succeeded and the last result is a video result: the
\* control is shown with its handlers bound once, and 'next' has moved from the
\* first frame to the second.
C24_Witness ==
    /\ submits = 3
    /\ inflight = {}
    /\ frameNav = [state |-> "shown", counter |-> <<2, 2>>, bindings |-> 1]
    /\ currentFrameIndex = 1
    /\ event.name = "showNextFrame"

\* A file whose type is in one of the two allow-lists and whose size is at most
\* the ceiling of that list's class.
PassesChecks(file) ==
    \/ file.type \in {"image/jpeg", "image/png", "image/webp"} /\ file.size <= 10 * 1024 * 1024
    \/ file.type \in {"video/mp4", "video/webm", "video/quicktime", "video/x-msvideo"}
          /\ file.size <= 50 * 1024 * 1024

\* C25: every request carries a file that passed the type check and the size
\* check, namely the file selected when the analyze button was clicked; a
\* selection that is rejected changes neither the selected file nor the
\* requests; a click on analyze with no file selected sends nothing and shows
\* the error toast.
C25_OnlyValidatedFilesAreSent ==
    [][/\ \A r \in inflight' : PassesChecks(r.file)
       /\ event'.name = "analyzeImage" =>
              \A r \in inflight' \ inflight : r.file = selectedFile /\ r.file = event'.arg
       /\ (event'.name = "processFile" /\ ~PassesChecks(event'.arg)) =>
              /\ event'.toast.type = "error"
              /\ selectedFile' = selectedFile
              /\ inflight' = inflight
       /\ (event'.name = "analyzeImage" /\ selectedFile = NoFile) =>
              /\ inflight' = inflight
              /\ submits' = submits
              /\ event'.toast =
                    Toast("Please select an image or video first", 0, "error")]_vars

\* A video was selected, then a document was offered and rejected, then analyze
\* was clicked: the second request carries the video, not the document.
C25_Witness ==
    /\ event.name = "analyzeImage"
    /\ event.arg = [type |-> "video/mp4", size |-> MAX_VIDEO_SIZE]
    /\ ~isVideo
    /\ \E r \in inflight :
          r.id = 2 /\ r.pc = "fetch" /\ r.file = [type |-> "video/mp4", size |-> MAX_VIDEO_SIZE]

\* The visible preview shows `file` in the element of its kind.
PreviewShows(p, file) ==
    /\ ~p.sectionHidden
    /\ IF file.type \in SUPPORTED_VIDEO_TYPES
       THEN ~p.videoHidden /\ p.imageHidden /\ p.videoSrc = file
       ELSE ~p.imageHidden /\ p.videoHidden /\ p.imageSrc = file

\* C26: a completed preview read leaves the preview either hidden or showing
\* the file that is selected at that moment, in the element of that file's kind.
C26_ReadNeverShowsStaleFile ==
    [][event'.name = "reader.onload" =>
          \/ preview'.sectionHidden
          \/ selectedFile' # NoFile /\ PreviewShows(preview', selectedFile')]_vars

\* A step of a handler that clears the selection.
Clears == event'.name \in {"clearPreview", "startNewAnalysis"}

\* C27: while no file is selected, from one clear until the next selection, no
\* step other than a clear changes the held video result, the frame index or
\* the results section, and no video result is held.
C27_ClearedStateStaysCleared ==
    [][(selectedFile = NoFile /\ selectedFile' = NoFile /\ ~Clears) =>
          /\ videoResults' = NoResult
          /\ currentFrameIndex' = 0
          /\ videoResults' = videoResults
          /\ results' = results
          /\ frameNav' = frameNav]_vars

====
